---------------------------- MODULE Spec2Model ----------------------------
(***************************************************************************)
(* Model of src/src/autosort.ts (class LootInterface): the lifecycle of    *)
(* the LOOT engine handle across game-mode changes, the sort pipeline with *)
(* its retry on invalid plugins, the proposal list built for a cycle with  *)
(* the dialog that applies the proposals, and the plugin details request.  *)
(*                                                                         *)
(* Every `await` of the source is a point where the running handler is     *)
(* suspended; a suspended handler may continue once the promise it awaits  *)
(* has settled.  Handlers awaiting one promise continue in the order they  *)
(* began to await it; handlers awaiting different promises continue in any *)
(* order, and events (game-mode changes, restart signals, sort requests,   *)
(* engine answers, timers) arrive at any point in between.                 *)
(***************************************************************************)
EXTENDS Integers, Sequences, FiniteSets, TLC

VARIABLES
    \* ---- lifecycle (LootInterface.mInitPromise and what it refers to)
    activeGame,     \* selectors.activeGameId(store.getState())
    mInitPromise,   \* this.mInitPromise: index into initProms
    initProms,      \* every promise ever stored in / awaited as mInitPromise
    handles,        \* every LootAsync instance ever created
    procs,          \* invocations of onGameModeChanged, the restart-helpers handler, getLoot
    \* ---- sort pipeline
    autoSort,       \* state.settings.plugins.autoSort
    pluginList,     \* state.session.plugins.pluginList
    loadOrder,      \* state.loadOrder
    files,          \* names present in <gamePath>/data
    mSortPromise,   \* this.mSortPromise: index into sortProms
    sortProms,      \* every promise ever stored in mSortPromise
    reqs,           \* invocations of onSort
    publishedOrder, \* payload of the last updatePluginOrder dispatch
    sorting,        \* the 'plugins'/'sorting' activity: TRUE when the last action
                    \* dispatched for it was startActivity, FALSE after stopActivity
    mUserlistTime,  \* this.mUserlistTime (-1: undefined, 0: null)
    userlistMtime,  \* mtime of userlist.yaml on disk (0: no such file)
    \* ---- cycle resolution
    cycle,          \* (err as any).cycle handed to getSolutions
    userlist,       \* state.userlist.plugins
    masterlist,     \* state.masterlist.plugins
    solutions,      \* the result array of getSolutions
    solPc,          \* per edge: position of the map callback of getSolutions
    dialog,         \* reportCycle: the notification and the 'Cyclic interaction' dialog
    selected,       \* the keys of the Apply Selected handler, after selected.sort(...)
    fixes,          \* invocations of applyFix
    dispatched,     \* the userlist actions given to api.store.dispatch, in order
    \* ---- plugin details
    queries         \* invocations of pluginDetails

lifeVars == <<activeGame, mInitPromise, initProms, handles, procs>>
sortVars == <<autoSort, pluginList, loadOrder, files, mSortPromise, sortProms,
              reqs, publishedOrder, sorting, mUserlistTime, userlistMtime>>
fixVars == <<dialog, selected, fixes, dispatched>>
cycleVars == <<cycle, userlist, masterlist, solutions, solPc, fixVars>>
metaVars == <<queries>>
vars == <<lifeVars, sortVars, cycleVars, metaVars>>

-----------------------------------------------------------------------------
(* Bounds of the model *)

\* number of onGameModeChanged / restart-helpers invocations
MaxCalls == 3
\* number of onSort invocations of one pipeline run after the other
MaxRuns == 1
\* number of onSort invocations that may overlap
MaxSortReqs == 2
\* number of entries of the plugin list, and the largest load order position
MaxPlugins == 3
MaxPos == 1
\* number of edges of a cycle
MaxCycle == 2
\* number of pluginDetails invocations
MaxQueries == 1
\* number of context switches while sort() is called
MaxSwitches == 2

-----------------------------------------------------------------------------
(* Values *)

\* `undefined` game mode
NoGame == "undefined"
Games == {"g1", "g2", "u"}
\* `undefined` loot instance (handles are numbered from 1)
NoLoot == 0

gameSupported(gameMode) == gameMode \in {"g1", "g2"}

-----------------------------------------------------------------------------
(* Lifecycle *)

\* a promise that is already resolved with { game, loot }
Resolved(game, loot) ==
    [st |-> "resolved", game |-> game, loot |-> loot, stage |-> "plain"]

\* new Bluebird(resolve => onRes = resolve)
Deferred == [st |-> "pending", game |-> NoGame, loot |-> NoLoot, stage |-> "plain"]

\* the promise returned by this.init(gameMode, gamePath), before createAsync settled
InitProm(gameMode) ==
    [st |-> "pending", game |-> gameMode, loot |-> NoLoot, stage |-> "create"]

isClosed(loot) == handles[loot].closed > 0

LifeInit ==
    /\ activeGame = NoGame
    /\ initProms = <<Resolved(NoGame, NoLoot)>>
    /\ mInitPromise = 1
    /\ handles = <<>>
    /\ procs = <<>>

\* startStopLoot(context, gameMode, loot), with ps the promises so far
startStopLoot(gameMode, loot, ps) ==
    /\ handles' = IF loot # NoLoot
                    THEN [handles EXCEPT ![loot].sched = @ + 1]
                    ELSE handles
    /\ initProms' = Append(ps, IF gameSupported(gameMode)
                                 THEN InitProm(gameMode)
                                 ELSE Resolved(gameMode, NoLoot))
    /\ mInitPromise' = Len(ps) + 1

\* onGameModeChanged up to its await of the previous promise, with ps the
\* invocations so far
onGameModeChanged(gameMode, ps) ==
    /\ initProms' = Append(initProms, Deferred)
    /\ mInitPromise' = Len(initProms) + 1
    /\ procs' = Append(ps, [kind |-> "gmc", pc |-> "awaitOld", gameMode |-> gameMode,
                            initProm |-> mInitPromise, onRes |-> Len(initProms) + 1,
                            newProm |-> 0])

\* the 'gamemode-activated' event (also the constructor's initial call)
GameModeActivated(g) ==
    /\ Len(procs) < MaxCalls
    /\ activeGame' = g
    /\ onGameModeChanged(g, procs)
    /\ UNCHANGED <<handles, sortVars, cycleVars, metaVars>>

\* another handler's await of the promise was registered before p's: the
\* handlers awaiting one promise continue in the order they started to await it
AwaitedBefore(p, prom) ==
    \E q \in DOMAIN procs :
        \/ procs[q].pc = "awaitNew" /\ procs[q].newProm = prom
        \/ q < p /\ procs[q].pc = "awaitOld" /\ procs[q].initProm = prom

\* onGameModeChanged after `await initProm`
GmcResume(p) ==
    /\ procs[p].kind = "gmc"
    /\ procs[p].pc = "awaitOld"
    /\ initProms[procs[p].initProm].st = "resolved"
    /\ ~AwaitedBefore(p, procs[p].initProm)
    /\ LET old == initProms[procs[p].initProm]
           me == procs[p]
       IN IF me.gameMode = old.game
            THEN /\ mInitPromise' = me.initProm
                 /\ initProms' = [initProms EXCEPT ![me.onRes] = Resolved(old.game, old.loot)]
                 /\ procs' = [procs EXCEPT ![p].pc = "done"]
                 /\ UNCHANGED handles
            ELSE /\ startStopLoot(me.gameMode, old.loot, initProms)
                 /\ procs' = [procs EXCEPT ![p].pc = "awaitNew",
                                           ![p].newProm = Len(initProms) + 1]
    /\ UNCHANGED <<activeGame, sortVars, cycleVars, metaVars>>

\* onGameModeChanged after `await this.mInitPromise`: onRes(...)
GmcFinish(p) ==
    /\ procs[p].kind = "gmc"
    /\ procs[p].pc = "awaitNew"
    /\ initProms[procs[p].newProm].st = "resolved"
    /\ LET new == initProms[procs[p].newProm]
       IN initProms' = [initProms EXCEPT ![procs[p].onRes] = Resolved(new.game, new.loot)]
    /\ procs' = [procs EXCEPT ![p].pc = "done"]
    /\ UNCHANGED <<activeGame, mInitPromise, handles, sortVars, cycleVars, metaVars>>

\* the 'restart-helpers' handler up to its await
RestartHelpers ==
    /\ Len(procs) < MaxCalls
    /\ procs' = Append(procs, [kind |-> "restart", pc |-> "awaitOld", gameMode |-> NoGame,
                               initProm |-> mInitPromise, onRes |-> 0, newProm |-> 0])
    /\ UNCHANGED <<activeGame, mInitPromise, initProms, handles, sortVars, cycleVars, metaVars>>

\* the 'restart-helpers' handler after `await this.mInitPromise`
RestartResume(p) ==
    /\ procs[p].kind = "restart"
    /\ procs[p].pc = "awaitOld"
    /\ initProms[procs[p].initProm].st = "resolved"
    /\ ~AwaitedBefore(p, procs[p].initProm)
    /\ startStopLoot(activeGame, initProms[procs[p].initProm].loot, initProms)
    /\ procs' = [procs EXCEPT ![p].pc = "done"]
    /\ UNCHANGED <<activeGame, sortVars, cycleVars, metaVars>>

\* what init returns: { game: gameMode, loot }, with the step of init that
\* failed (if one did) kept in `stage`
InitReturns(game, loot, stage) == [Resolved(game, loot) EXCEPT !.stage = stage]

\* an init whose failure to create the instance rejects the promise
InitCreateRejecting(i, ok) ==
    /\ initProms[i].st = "pending"
    /\ initProms[i].stage = "create"
    /\ IF ok
         THEN /\ handles' = Append(handles, [game |-> initProms[i].game, sched |-> 0, closed |-> 0])
              /\ initProms' = [initProms EXCEPT ![i].stage = "load", ![i].loot = Len(handles) + 1]
         ELSE /\ initProms' = [initProms EXCEPT ![i].st = "rejected", ![i].stage = "createFailed"]
              /\ UNCHANGED handles
    /\ UNCHANGED <<activeGame, mInitPromise, procs, sortVars, cycleVars, metaVars>>

\* init: LootProm.createAsync settles (a new instance, or a failure that is reported)
InitCreate(i, ok) ==
    /\ initProms[i].st = "pending"
    /\ initProms[i].stage = "create"
    /\ IF ok
         THEN /\ handles' = Append(handles, [game |-> initProms[i].game, sched |-> 0, closed |-> 0])
              /\ initProms' = [initProms EXCEPT ![i].stage = "load", ![i].loot = Len(handles) + 1]
         ELSE /\ initProms' = [initProms EXCEPT ![i] =
                                 InitReturns(initProms[i].game, NoLoot, "createFailed")]
              /\ UNCHANGED handles
    /\ UNCHANGED <<activeGame, mInitPromise, procs, sortVars, cycleVars, metaVars>>

\* init: masterlist update and list load are over; ok is false when the
\* lists could not be loaded, which is only reported (as is a failure of the
\* update).  Loaded lists leave the time of the userlist (null without one)
\* in mUserlistTime
InitLoad(i, ok) ==
    /\ initProms[i].st = "pending"
    /\ initProms[i].stage = "load"
    /\ initProms' = [initProms EXCEPT ![i] =
                       InitReturns(initProms[i].game, initProms[i].loot,
                                   IF ok THEN "plain" ELSE "loadFailed")]
    /\ mUserlistTime' = IF ok THEN userlistMtime ELSE mUserlistTime
    /\ UNCHANGED <<autoSort, pluginList, loadOrder, files, mSortPromise, sortProms,
                   reqs, publishedOrder, sorting, userlistMtime>>
    /\ UNCHANGED <<activeGame, mInitPromise, handles, procs, cycleVars, metaVars>>

\* the 5000 ms timer of startStopLoot fires: loot.close()
CloseTimer(h) ==
    /\ handles[h].closed < handles[h].sched
    /\ handles' = [handles EXCEPT ![h].closed = @ + 1]
    /\ UNCHANGED <<activeGame, mInitPromise, initProms, procs, sortVars, cycleVars, metaVars>>

NextLife ==
    \/ \E g \in Games : GameModeActivated(g)
    \/ RestartHelpers
    \/ \E p \in DOMAIN procs : GmcResume(p)
    \/ \E p \in DOMAIN procs : GmcFinish(p)
    \/ \E p \in DOMAIN procs : RestartResume(p)
    \/ \E i \in DOMAIN initProms : \E ok \in BOOLEAN : InitCreate(i, ok)
    \/ \E i \in DOMAIN initProms : \E ok \in BOOLEAN : InitLoad(i, ok)
    \/ \E h \in DOMAIN handles : CloseTimer(h)

-----------------------------------------------------------------------------
(* Sort pipeline: values *)

\* item names are sequences of characters
NameA == <<"A">>
Namea == <<"a">>
Nameb == <<"b">>
Namec == <<"c">>
Named == <<"d">>

\* names the engine may mention in an "is not a valid plugin" failure
EngineNames == {NameA, Namea, Nameb}

\* String.prototype.toLowerCase, on the characters of the model
LowerChar(ch) == CASE ch = "A" -> "a" [] ch = "B" -> "b" [] ch = "C" -> "c" [] OTHER -> ch
toLowerCase(name) == [i \in DOMAIN name |-> LowerChar(name[i])]

\* path.basename of a file path given as its components
basename(filePath) == filePath[Len(filePath)]

\* Object.keys(pluginList)
ObjectKeys(list) == [i \in DOMAIN list |-> list[i].id]

\* pluginList[pluginId]
PluginEntry(pluginId) ==
    pluginList[CHOOSE i \in DOMAIN pluginList : pluginList[i].id = pluginId]

\* a lookup that gives an item without known position the highest position
loLast(pluginKey) ==
    IF pluginKey \in DOMAIN loadOrder THEN loadOrder[pluginKey].loadOrder ELSE MaxPos + 1

\* const lo = pluginKey => (state.loadOrder[pluginKey] || { loadOrder: -1 }).loadOrder
lo(pluginKey) ==
    IF pluginKey \in DOMAIN loadOrder THEN loadOrder[pluginKey].loadOrder ELSE -1

\* Array.prototype.sort((lhs, rhs) => lo(lhs) - lo(rhs)): a stable insertion
RECURSIVE InsertByLo(_, _)
InsertByLo(sorted, key) ==
    IF sorted = <<>> THEN <<key>>
    ELSE IF lo(Head(sorted)) - lo(key) <= 0
           THEN <<Head(sorted)>> \o InsertByLo(Tail(sorted), key)
           ELSE <<key>> \o sorted

RECURSIVE SortByLo(_)
SortByLo(keys) ==
    IF keys = <<>> THEN <<>>
    ELSE InsertByLo(SortByLo(SubSeq(keys, 1, Len(keys) - 1)), keys[Len(keys)])

\* .filter(pluginId => pluginList[pluginId].deployed)
FilterDeployed(keys) == SelectSeq(keys, LAMBDA pluginId : PluginEntry(pluginId).deployed)

\* the pluginNames of onSort
PluginNames ==
    LET sorted == SortByLo(FilterDeployed(ObjectKeys(pluginList)))
    IN [i \in DOMAIN sorted |-> basename(PluginEntry(sorted[i]).filePath)]

\* pluginNames.indexOf(pluginName), 0 standing for -1
indexOf(pluginNames, pluginName) ==
    IF \E i \in DOMAIN pluginNames : pluginNames[i] = pluginName
      THEN CHOOSE i \in DOMAIN pluginNames :
             /\ pluginNames[i] = pluginName
             /\ \A j \in 1..(i - 1) : pluginNames[j] # pluginName
      ELSE 0

\* newList.splice(idx): every item from idx on is removed
spliceFrom(pluginNames, idx) == SubSeq(pluginNames, 1, idx - 1)

\* newList.splice(idx, 0): no item is removed
spliceNone(pluginNames, idx) == pluginNames

\* newList = pluginNames.slice(); newList.splice(idx, 1)
splice(pluginNames, idx) ==
    SubSeq(pluginNames, 1, idx - 1) \o SubSeq(pluginNames, idx + 1, Len(pluginNames))

\* fs.statAsync(path.join(this.gamePath, 'data', pluginName)) succeeds
statSucceeds(pluginName) == pluginName \in files

Reverse(seq) == [i \in DOMAIN seq |-> seq[Len(seq) + 1 - i]]

\* what sortPluginsAsync may answer for an input: an order, or a failure
SortAnswers(pluginNames) ==
    {[type |-> "ok", name |-> <<>>, sorted |-> Reverse(pluginNames)]}
    \cup {[type |-> t, name |-> <<>>, sorted |-> <<>>] :
            t \in {"cyclic", "group", "cond", "closed", "other"}}
    \cup {[type |-> "invalid", name |-> n, sorted |-> <<>>] : n \in EngineNames}

-----------------------------------------------------------------------------
(* Sort pipeline: onSort and doSort *)

NoErr == [type |-> "none", name |-> <<>>, sorted |-> <<>>]

\* what one onSort invocation did so far
ZeroEff == [dismiss |-> 0, raise |-> 0, lower |-> 0, reload |-> 0,
            warn |-> 0, error |-> 0, cycle |-> 0, publish |-> 0]

SortIdle ==
    /\ autoSort = FALSE
    /\ pluginList = <<>>
    /\ loadOrder = <<>>
    /\ files = {}
    /\ mSortPromise = 1
    /\ sortProms = <<[st |-> "resolved", val |-> <<>>, err |-> NoErr]>>
    /\ reqs = <<>>
    /\ publishedOrder = <<>>
    /\ sorting = FALSE
    /\ mUserlistTime = -1
    /\ userlistMtime = 0

\* the test without loot.isClosed()
SortSkippedOpen(gameMode, game, loot) ==
    \/ gameMode # game
    \/ ~gameSupported(gameMode)
    \/ loot = NoLoot

\* the test of onSort that makes it return without sorting
SortSkipped(gameMode, game, loot) ==
    \/ gameMode # game
    \/ ~gameSupported(gameMode)
    \/ loot = NoLoot
    \/ isClosed(loot)

\* onSort(manual, callback) up to `await this.mInitPromise`
onSort(manual, callback) ==
    LET rq == [pc |-> "awaitInit", manual |-> manual, cb |-> callback,
               initProm |-> mInitPromise, loot |-> NoLoot, names |-> <<>>,
               join |-> 0, mine |-> 0, depth |-> 0, err |-> NoErr,
               disp |-> <<>>, fails |-> <<>>, seen |-> <<>>, cbs |-> <<>>,
               lists |-> <<>>, eff |-> ZeroEff]
    IN IF manual \/ autoSort
         THEN reqs' = Append(reqs, rq)
         ELSE reqs' = Append(reqs, [rq EXCEPT !.pc = "done",
                                              !.cbs = IF callback THEN <<"null">> ELSE <<>>])

\* what sort() returns for an onSort invocation that has returned:
\* .then(() => (error !== null) ? Promise.reject(error) : Promise.resolve())
sort(rq) ==
    IF \E i \in DOMAIN rq.cbs : rq.cbs[i] # "null" THEN "rejected" ELSE "resolved"

\* the 'autosort-plugins' event
SortRequested(limit, manual, callback) ==
    /\ Len(reqs) < limit
    /\ onSort(manual, callback)
    /\ UNCHANGED <<autoSort, pluginList, loadOrder, files, mSortPromise, sortProms,
                   publishedOrder, sorting, mUserlistTime, userlistMtime>>
    /\ UNCHANGED <<lifeVars, cycleVars, metaVars>>

\* LootInterface.sort(): onSort(true, err => error = err)
SortCalled(limit) ==
    /\ Len(reqs) < limit
    /\ onSort(TRUE, TRUE)
    /\ UNCHANGED <<autoSort, pluginList, loadOrder, files, mSortPromise, sortProms,
                   publishedOrder, sorting, mUserlistTime, userlistMtime>>
    /\ UNCHANGED <<lifeVars, cycleVars, metaVars>>

\* onSort after `await this.mInitPromise`, up to `await this.mSortPromise`
SortAfterInit(r) ==
    /\ reqs[r].pc = "awaitInit"
    /\ initProms[reqs[r].initProm].st = "resolved"
    /\ LET slot == initProms[reqs[r].initProm]
           seen == [active |-> activeGame, game |-> slot.game, loot |-> slot.loot,
                    closed |-> IF slot.loot = NoLoot THEN FALSE
                               ELSE handles[slot.loot].closed > 0]
       IN IF SortSkipped(activeGame, slot.game, slot.loot)
            THEN reqs' = [reqs EXCEPT ![r].pc = "done", ![r].seen = <<seen>>]
            ELSE reqs' = [reqs EXCEPT ![r].pc = "awaitSort", ![r].seen = <<seen>>,
                                      ![r].loot = slot.loot, ![r].names = PluginNames,
                                      ![r].join = mSortPromise]
    /\ UNCHANGED <<autoSort, pluginList, loadOrder, files, mSortPromise, sortProms,
                   publishedOrder, sorting, mUserlistTime, userlistMtime>>
    /\ UNCHANGED <<lifeVars, cycleVars, metaVars>>

\* doSort(pluginNames, gameMode, loot) up to `await this.mSortPromise`, entered
\* by invocation r with `outer` enclosing doSort calls
doSort(r, pluginNames, outer) ==
    /\ sorting' = TRUE
    /\ sortProms' = Append(sortProms, [st |-> "pending", val |-> <<>>, err |-> NoErr])
    /\ mSortPromise' = Len(sortProms) + 1
    /\ reqs' = [reqs EXCEPT ![r].pc = "readLists", ![r].names = pluginNames,
                            ![r].mine = Len(sortProms) + 1, ![r].depth = outer,
                            ![r].eff.dismiss = @ + 1, ![r].eff.raise = @ + 1]

\* onSort after `await this.mSortPromise` (settled either way): doSort
SortAfterJoin(r) ==
    /\ reqs[r].pc = "awaitSort"
    /\ sortProms[reqs[r].join].st # "pending"
    /\ doSort(r, reqs[r].names, 0)
    /\ UNCHANGED <<autoSort, pluginList, loadOrder, files, publishedOrder,
                   mUserlistTime, userlistMtime>>
    /\ UNCHANGED <<lifeVars, cycleVars, metaVars>>

\* readLists has to load the lists
listsChanged ==
    /\ userlistMtime # 0
    /\ (mUserlistTime <= 0 \/ mUserlistTime # userlistMtime)

\* what one readLists call met and did: the time in mUserlistTime and the
\* time of the file when it was called, whether it loaded the lists (on a
\* closed handle loadListsAsync fails with 'already closed'), the time in
\* mUserlistTime when it returned
ListsRead(loot, last, loaded, after) ==
    [last |-> last, mtime |-> userlistMtime, loaded |-> loaded, after |-> after,
     closed |-> isClosed(loot)]

\* readLists is over (lists loaded when ok, the failure reported otherwise),
\* and its .then dispatches loot.sortPluginsAsync(pluginNames)
ReadLists(r, ok) ==
    /\ reqs[r].pc = "readLists"
    /\ IF listsChanged
         THEN /\ isClosed(reqs[r].loot) => ~ok
              /\ mUserlistTime' = IF ok THEN userlistMtime ELSE mUserlistTime
              /\ reqs' = [reqs EXCEPT ![r].pc = "sorting",
                                      ![r].disp = Append(@, reqs[r].names),
                                      ![r].lists = Append(@, ListsRead(reqs[r].loot, mUserlistTime,
                                                       IF ok THEN "ok" ELSE "failed",
                                                       mUserlistTime')),
                                      ![r].eff.reload = @ + 1,
                                      ![r].eff.error = IF ok THEN @ ELSE @ + 1]
         ELSE /\ ok
              /\ reqs' = [reqs EXCEPT ![r].pc = "sorting",
                                      ![r].disp = Append(@, reqs[r].names),
                                      ![r].lists = Append(@, ListsRead(reqs[r].loot, mUserlistTime,
                                                                       "no", mUserlistTime))]
              /\ UNCHANGED mUserlistTime
    /\ UNCHANGED <<autoSort, pluginList, loadOrder, files, mSortPromise, sortProms,
                   publishedOrder, sorting, userlistMtime>>
    /\ UNCHANGED <<lifeVars, cycleVars, metaVars>>

\* sortPluginsAsync settles (with 'already closed' on a closed handle and on
\* no other), and with it the promise stored in mSortPromise:
\* .catch(err => err.message === 'already closed' ? resolve([]) : reject(err))
EngineSettle(r, ans) ==
    /\ reqs[r].pc = "sorting"
    /\ ans \in SortAnswers(reqs[r].names)
    /\ isClosed(reqs[r].loot) <=> ans.type = "closed"
    /\ sortProms' = [sortProms EXCEPT ![reqs[r].mine] =
                       IF ans.type = "ok"
                         THEN [st |-> "resolved", val |-> ans.sorted, err |-> NoErr]
                       ELSE IF ans.type = "closed"
                         THEN [st |-> "resolved", val |-> <<>>, err |-> NoErr]
                       ELSE [st |-> "rejected", val |-> <<>>, err |-> ans]]
    /\ reqs' = [reqs EXCEPT ![r].pc = "settled",
                            ![r].fails = IF ans.type = "ok" THEN @ ELSE Append(@, ans)]
    /\ UNCHANGED <<autoSort, pluginList, loadOrder, files, mSortPromise,
                   publishedOrder, sorting, mUserlistTime, userlistMtime>>
    /\ UNCHANGED <<lifeVars, cycleVars, metaVars>>

\* the `finally` of one doSort call (stopActivity); the outermost one returns to
\* onSort, which calls callback(null) and resolves
Finally(rq) ==
    IF rq.depth = 0
      THEN [rq EXCEPT !.pc = "done", !.eff.lower = @ + 1,
                      !.cbs = IF rq.cb THEN Append(@, "null") ELSE @]
      ELSE [rq EXCEPT !.pc = "unwind", !.depth = @ - 1, !.eff.lower = @ + 1]

\* reportErr(): the 'loot-failed' warning
reportErr(rq) == [rq EXCEPT !.eff.warn = @ + 1]

\* doSort after `await this.mSortPromise`: publish, or classify the failure
DoSortResume(r) ==
    /\ reqs[r].pc = "settled"
    /\ LET prom == sortProms[reqs[r].mine]
           rq == reqs[r]
       IN IF prom.st = "resolved"
            THEN /\ publishedOrder' = prom.val
                 /\ sorting' = FALSE
                 /\ reqs' = [reqs EXCEPT ![r] = Finally([rq EXCEPT !.eff.publish = @ + 1])]
          ELSE IF prom.err.type = "invalid"
            THEN /\ reqs' = [reqs EXCEPT ![r].pc = "stat", ![r].err = prom.err]
                 /\ UNCHANGED <<publishedOrder, sorting>>
          ELSE /\ sorting' = FALSE
               /\ reqs' = [reqs EXCEPT ![r] = Finally(
                    CASE prom.err.type = "cyclic" -> [rq EXCEPT !.eff.cycle = @ + 1]
                      [] prom.err.type = "group" -> reportErr(rq)
                      [] OTHER -> [rq EXCEPT !.eff.error = @ + 1])]
               /\ UNCHANGED publishedOrder
    /\ UNCHANGED <<autoSort, pluginList, loadOrder, files, mSortPromise, sortProms,
                   mUserlistTime, userlistMtime>>
    /\ UNCHANGED <<lifeVars, cycleVars, metaVars>>

\* the invalid-plugin branch after fs.statAsync: warn, or retry without the plugin
StatDone(r) ==
    /\ reqs[r].pc = "stat"
    /\ LET rq == reqs[r]
           pluginName == rq.err.name
           idx == indexOf(rq.names, pluginName)
       IN IF statSucceeds(pluginName) \/ idx = 0
            THEN /\ sorting' = FALSE
                 /\ reqs' = [reqs EXCEPT ![r] = Finally(reportErr(rq))]
                 /\ UNCHANGED <<mSortPromise, sortProms>>
            ELSE doSort(r, splice(rq.names, idx), rq.depth + 1)
    /\ UNCHANGED <<autoSort, pluginList, loadOrder, files, publishedOrder,
                   mUserlistTime, userlistMtime>>
    /\ UNCHANGED <<lifeVars, cycleVars, metaVars>>

\* the `finally` of an enclosing doSort call, after `return await this.doSort(...)`
Unwind(r) ==
    /\ reqs[r].pc = "unwind"
    /\ sorting' = FALSE
    /\ reqs' = [reqs EXCEPT ![r] = Finally(reqs[r])]
    /\ UNCHANGED <<autoSort, pluginList, loadOrder, files, mSortPromise, sortProms,
                   publishedOrder, mUserlistTime, userlistMtime>>
    /\ UNCHANGED <<lifeVars, cycleVars, metaVars>>

\* no dialog yet, nothing applied
FixIdle ==
    /\ dialog = "none"
    /\ selected = <<>>
    /\ fixes = <<>>
    /\ dispatched = <<>>

\* pluginDetails was never invoked
MetaIdle == queries = <<>>

CycleIdle ==
    /\ cycle = <<>>
    /\ userlist = <<>>
    /\ masterlist = <<>>
    /\ solutions = <<>>
    /\ solPc = <<>>
    /\ FixIdle

\* the plugins of the pipeline's specification: a (on disk as "A") and b are
\* deployed, c is not; b has no load order entry
SomePlugins ==
    << [id |-> Namea, deployed |-> TRUE, filePath |-> <<"data", NameA>>],
       [id |-> Nameb, deployed |-> TRUE, filePath |-> <<"data", Nameb>>],
       [id |-> Namec, deployed |-> FALSE, filePath |-> <<"data", Namec>>] >>

SomeLoadOrder == (Namea :> [loadOrder |-> 1]) @@ (Namec :> [loadOrder |-> 0])

\* the lifecycle states a sort request may meet: the handle of the active
\* game (with or without a teardown scheduled), no handle after a failed
\* creation, the store already on another game, an unsupported game
SortStarts ==
    { [active |-> "g1", game |-> "g1", loot |-> 1, sched |-> 0],
      [active |-> "g1", game |-> "g1", loot |-> 1, sched |-> 1],
      [active |-> "g1", game |-> "g1", loot |-> NoLoot, sched |-> 0],
      [active |-> "g2", game |-> "g1", loot |-> 1, sched |-> 0],
      [active |-> "u", game |-> "u", loot |-> NoLoot, sched |-> 0] }

LifeAt(start) ==
    /\ activeGame = start.active
    /\ initProms = <<Resolved(start.game, start.loot)>>
    /\ mInitPromise = 1
    /\ handles = IF start.loot = NoLoot THEN <<>>
                 ELSE <<[game |-> start.game, sched |-> start.sched, closed |-> 0]>>
    /\ procs = <<>>

\* what the pipeline starts from, apart from the lifecycle
PipelineAt(auto, onDisk, mtime) ==
    /\ autoSort = auto
    /\ pluginList = SomePlugins
    /\ loadOrder = SomeLoadOrder
    /\ files = onDisk
    /\ mSortPromise = 1
    /\ sortProms = <<[st |-> "resolved", val |-> <<>>, err |-> NoErr]>>
    /\ reqs = <<>>
    /\ publishedOrder = <<>>
    /\ sorting = FALSE
    /\ mUserlistTime = 1
    /\ userlistMtime = mtime

GoodStart == [active |-> "g1", game |-> "g1", loot |-> 1, sched |-> 0]

\* any lifecycle state and preference, or the usable handle with any disk state
Init ==
    /\ \/ /\ \E start \in SortStarts : LifeAt(start)
          /\ \E auto \in BOOLEAN : PipelineAt(auto, {}, 1)
       \/ /\ LifeAt(GoodStart)
          /\ \E onDisk \in {{}, {NameA}} : \E mtime \in {1, 2} :
                PipelineAt(TRUE, onDisk, mtime)
    /\ CycleIdle
    /\ MetaIdle

\* every onSort invocation so far has returned
Returned == \A r \in DOMAIN reqs : reqs[r].pc = "done"

\* sort requests arrive one after the other
Next ==
    \/ \E manual, callback \in BOOLEAN : Returned /\ SortRequested(MaxRuns, manual, callback)
    \/ Returned /\ SortCalled(MaxRuns)
    \/ \E r \in DOMAIN reqs : SortAfterInit(r)
    \/ \E r \in DOMAIN reqs : SortAfterJoin(r)
    \/ \E r \in DOMAIN reqs : \E ok \in BOOLEAN : ReadLists(r, ok)
    \/ \E r \in DOMAIN reqs : \E ans \in SortAnswers(reqs[r].names) : EngineSettle(r, ans)
    \/ \E r \in DOMAIN reqs : DoSortResume(r)
    \/ \E r \in DOMAIN reqs : StatDone(r)
    \/ \E r \in DOMAIN reqs : Unwind(r)
    \/ \E h \in DOMAIN handles : CloseTimer(h)

Spec == Init /\ [][Next]_vars

\* overlapping sort requests against the usable handle, the file A on disk
InitConc ==
    /\ LifeAt(GoodStart)
    /\ PipelineAt(TRUE, {NameA}, 1)
    /\ CycleIdle
    /\ MetaIdle

NextConc ==
    \/ SortRequested(MaxSortReqs, FALSE, TRUE)
    \/ SortCalled(MaxSortReqs)
    \/ \E r \in DOMAIN reqs : SortAfterInit(r)
    \/ \E r \in DOMAIN reqs : SortAfterJoin(r)
    \/ \E r \in DOMAIN reqs : \E ok \in BOOLEAN : ReadLists(r, ok)
    \/ \E r \in DOMAIN reqs : \E ans \in SortAnswers(reqs[r].names) : EngineSettle(r, ans)
    \/ \E r \in DOMAIN reqs : DoSortResume(r)
    \/ \E r \in DOMAIN reqs : StatDone(r)
    \/ \E r \in DOMAIN reqs : Unwind(r)

SpecConc == InitConc /\ [][NextConc]_vars

\* sort() calls while the context is switched and the engine initialised,
\* the engine sorting whatever it is given unless it was closed
InitDegrade ==
    /\ LifeInit
    /\ PipelineAt(TRUE, {}, 1)
    /\ CycleIdle
    /\ MetaIdle

NextDegrade ==
    \/ \E g \in {"g1", "u"} : Len(procs) < MaxSwitches /\ GameModeActivated(g)
    \/ \E p \in DOMAIN procs : GmcResume(p)
    \/ \E p \in DOMAIN procs : GmcFinish(p)
    \/ \E i \in DOMAIN initProms : \E ok \in BOOLEAN : InitCreate(i, ok)
    \/ \E i \in DOMAIN initProms : \E ok \in BOOLEAN : InitLoad(i, ok)
    \/ \E h \in DOMAIN handles : CloseTimer(h)
    \/ Returned /\ SortCalled(MaxRuns)
    \/ \E r \in DOMAIN reqs : SortAfterInit(r)
    \/ \E r \in DOMAIN reqs : SortAfterJoin(r)
    \/ \E r \in DOMAIN reqs : ReadLists(r, TRUE)
    \/ \E r \in DOMAIN reqs : \E ans \in SortAnswers(reqs[r].names) :
          ans.type \in {"ok", "closed"} /\ EngineSettle(r, ans)
    \/ \E r \in DOMAIN reqs : DoSortResume(r)

SpecDegrade == InitDegrade /\ [][NextDegrade]_vars

-----------------------------------------------------------------------------
(* Plugin details: getLoot and pluginDetails *)

\* getLoot(context, gameId) up to `await this.mInitPromise`
getLoot(gameId) ==
    procs' = Append(procs, [kind |-> "getLoot", pc |-> "awaitOld", gameMode |-> gameId,
                            initProm |-> mInitPromise, onRes |-> 0, newProm |-> 0])

\* getLoot after its first await, returning what it awaited
GetLootResumeAsIs(p) ==
    /\ procs[p].kind = "getLoot"
    /\ procs[p].pc = "awaitOld"
    /\ initProms[procs[p].initProm].st = "resolved"
    /\ ~AwaitedBefore(p, procs[p].initProm)
    /\ procs' = [procs EXCEPT ![p].pc = "done"]
    /\ UNCHANGED <<initProms, mInitPromise>>
    /\ UNCHANGED <<activeGame, handles, sortVars, cycleVars, metaVars>>

\* getLoot after its first await: return, or change the context and await again
GetLootResume(p) ==
    /\ procs[p].kind = "getLoot"
    /\ procs[p].pc = "awaitOld"
    /\ initProms[procs[p].initProm].st = "resolved"
    /\ ~AwaitedBefore(p, procs[p].initProm)
    /\ IF initProms[procs[p].initProm].game # procs[p].gameMode
         THEN onGameModeChanged(procs[p].gameMode,
                                [procs EXCEPT ![p].pc = "awaitNew",
                                              ![p].newProm = Len(initProms) + 1])
         ELSE /\ procs' = [procs EXCEPT ![p].pc = "done"]
              /\ UNCHANGED <<initProms, mInitPromise>>
    /\ UNCHANGED <<activeGame, handles, sortVars, cycleVars, metaVars>>

\* getLoot after its second await
GetLootFinish(p) ==
    /\ procs[p].kind = "getLoot"
    /\ procs[p].pc = "awaitNew"
    /\ initProms[procs[p].newProm].st = "resolved"
    /\ procs' = [procs EXCEPT ![p].pc = "done"]
    /\ UNCHANGED <<activeGame, mInitPromise, initProms, handles, sortVars, cycleVars, metaVars>>

\* what the getLoot invocation p returned
GetLootResult(p) ==
    IF procs[p].newProm = 0 THEN initProms[procs[p].initProm]
                            ELSE initProms[procs[p].newProm]

\* the records of the result: createEmpty(), the record built from meta when
\* info is undefined, the record built from meta and info
Records == {"empty", "meta", "full"}

\* the 'gamebryo-plugins-details' request: pluginDetails up to its first await
PluginDetails(gameId, plugins) ==
    /\ Len(queries) < MaxQueries
    /\ getLoot(gameId)
    /\ queries' = Append(queries,
                         [pc |-> "getLoot", proc |-> Len(procs) + 1, plugins |-> plugins,
                          loot |-> NoLoot, pluginsLoaded |-> FALSE, closed |-> FALSE,
                          error |-> FALSE, item |-> [i \in DOMAIN plugins |-> "none"],
                          late |-> {},
                          result |-> [i \in DOMAIN plugins |-> "none"],
                          cbs |-> <<>>, notes |-> <<>>])
    /\ UNCHANGED <<activeGame, mInitPromise, initProms, handles, sortVars, cycleVars>>

\* callback({})
NoDetails(qr) == [qr EXCEPT !.pc = "done", !.cbs = Append(@, <<>>)]

\* pluginDetails after `await this.getLoot(context, gameId)`
DetailsAfterGetLoot(q) ==
    /\ queries[q].pc = "getLoot"
    /\ procs[queries[q].proc].pc = "done"
    /\ LET loot == GetLootResult(queries[q].proc).loot
       IN queries' = [queries EXCEPT ![q] =
                        IF loot = NoLoot \/ isClosed(loot)
                          THEN NoDetails(@)
                          ELSE [@ EXCEPT !.pc = "messages", !.loot = loot]]
    /\ UNCHANGED <<lifeVars, sortVars, cycleVars>>

\* what a call of the engine settles with: its result, a failure, the
\* failure 'already closed', which an instance that was closed gives and no other
EngineAnswers == {"ok", "error", "closed"}
Answered(loot, answer) == (answer = "closed") <=> isClosed(loot)

\* the same, for a result that was there before the instance was closed
AnsweredBefore(loot, answer) == (answer = "closed") => isClosed(loot)

\* pluginDetails after `await loot.getGeneralMessagesAsync(true)`
MessagesSettle(q, answer) ==
    /\ queries[q].pc = "messages"
    /\ AnsweredBefore(queries[q].loot, answer)
    /\ queries' = [queries EXCEPT ![q] =
                     IF answer = "ok"
                       THEN (IF isClosed(@.loot) THEN NoDetails(@)
                                                 ELSE [@ EXCEPT !.pc = "loadOrder"])
                       ELSE NoDetails([@ EXCEPT !.notes = Append(@, "loot-meta-error")])]
    /\ UNCHANGED <<lifeVars, sortVars, cycleVars>>

\* pluginDetails after `await loot.loadCurrentLoadOrderStateAsync()`
LoadOrderSettle(q, answer) ==
    /\ queries[q].pc = "loadOrder"
    /\ Answered(queries[q].loot, answer)
    /\ queries' = [queries EXCEPT ![q] =
                     IF answer = "ok"
                       THEN [@ EXCEPT !.pc = "loadPlugins"]
                       ELSE NoDetails([@ EXCEPT !.notes = Append(@, "loot-meta-error")])]
    /\ UNCHANGED <<lifeVars, sortVars, cycleVars>>

\* (pluginList[id] !== undefined) && pluginList[id].deployed, id the lower-cased name
isDeployed(pluginName) ==
    \E i \in DOMAIN pluginList :
        pluginList[i].id = toLowerCase(pluginName) /\ pluginList[i].deployed

\* plugins.map(async pluginName => ...): every callback up to its first await
StartBatch(qr, closed) ==
    [qr EXCEPT !.pc = "batch",
               !.closed = closed,
               !.late = IF closed THEN DOMAIN qr.plugins ELSE {},
               !.item = [i \in DOMAIN qr.plugins |-> IF closed THEN "done" ELSE "meta"],
               !.result = [i \in DOMAIN qr.plugins |-> IF closed THEN "empty" ELSE "none"]]

\* pluginDetails after `await loot.loadPluginsAsync(...)`, up to Promise.all
LoadPluginsSettle(q, answer) ==
    /\ queries[q].pc = "loadPlugins"
    /\ Answered(queries[q].loot, answer)
    /\ queries' = [queries EXCEPT ![q] =
                     IF answer = "ok"
                       THEN StartBatch([@ EXCEPT !.pluginsLoaded = TRUE], isClosed(@.loot))
                     ELSE IF answer = "closed"
                       THEN [@ EXCEPT !.pc = "done"]
                     ELSE StartBatch([@ EXCEPT !.notes = Append(@, "parse")], isClosed(@.loot))]
    /\ UNCHANGED <<lifeVars, sortVars, cycleVars>>

\* the record of an invocation after the callback of plugin i returned: `late`
\* keeps the plugins whose callback returned after the instance was closed
Returns(qr, i) == [qr EXCEPT !.item[i] = "done",
                             !.late = IF isClosed(qr.loot) THEN @ \cup {i} ELSE @]

\* what getPluginMetadataAsync settles with: "noMeta" is the failure that
\* carries `arg` (the engine has no meta data for the plugin)
MetaAnswers == EngineAnswers \cup {"noMeta"}

\* the map callback of plugin i after `await loot.getPluginMetadataAsync(pluginName)`
MetaSettle(q, i, answer) ==
    /\ queries[q].pc = "batch"
    /\ i \in DOMAIN queries[q].plugins
    /\ queries[q].item[i] = "meta"
    /\ Answered(queries[q].loot, answer)
    /\ queries' = [queries EXCEPT ![q] =
                     IF answer = "ok"
                       THEN (IF isDeployed(@.plugins[i])
                               THEN [@ EXCEPT !.item[i] = "info"]
                               ELSE Returns([@ EXCEPT !.result[i] = "meta"], i))
                     ELSE IF answer = "noMeta"
                       THEN Returns([@ EXCEPT !.result[i] = "empty"], i)
                     ELSE IF answer = "closed"
                       THEN Returns([@ EXCEPT !.result[i] = "empty", !.closed = TRUE], i)
                     ELSE Returns([@ EXCEPT !.result[i] = "empty", !.error = TRUE], i)]
    /\ UNCHANGED <<lifeVars, sortVars, cycleVars>>

\* the map callback of plugin i after `await loot.getPluginAsync(pluginName)`:
\* a failure is logged and leaves info undefined
InfoSettle(q, i, answer) ==
    /\ queries[q].pc = "batch"
    /\ i \in DOMAIN queries[q].plugins
    /\ queries[q].item[i] = "info"
    /\ Answered(queries[q].loot, answer)
    /\ queries' = [queries EXCEPT ![q] =
                     Returns([@ EXCEPT !.result[i] = IF answer = "ok" /\ queries[q].pluginsLoaded
                                                      THEN "full" ELSE "meta"], i)]
    /\ UNCHANGED <<lifeVars, sortVars, cycleVars>>

\* Promise.all(...).then: the notification of the last error, callback(result)
BatchThen(q) ==
    /\ queries[q].pc = "batch"
    /\ \A i \in DOMAIN queries[q].plugins : queries[q].item[i] = "done"
    /\ queries' = [queries EXCEPT ![q].pc = "done",
                                  ![q].notes = IF queries[q].error /\ ~queries[q].closed
                                                 THEN Append(@, "loot-details-error") ELSE @,
                                  ![q].cbs = Append(@, queries[q].result)]
    /\ UNCHANGED <<lifeVars, sortVars, cycleVars>>

\* the plugin lists asked about: a deployed plugin, and with it one that is
\* not deployed
Batches == {<<NameA>>, <<NameA, Namec>>}

\* requests for the details of plugins of the active game, against any
\* lifecycle state a request may meet
InitMeta ==
    /\ \E start \in SortStarts : LifeAt(start)
    /\ PipelineAt(TRUE, {}, 1)
    /\ CycleIdle
    /\ MetaIdle

NextMeta ==
    \/ \E plugins \in Batches : PluginDetails(activeGame, plugins)
    \/ \E p \in DOMAIN procs : GetLootResume(p)
    \/ \E q \in DOMAIN queries : DetailsAfterGetLoot(q)
    \/ \E q \in DOMAIN queries : \E answer \in EngineAnswers : MessagesSettle(q, answer)
    \/ \E q \in DOMAIN queries : \E answer \in EngineAnswers : LoadOrderSettle(q, answer)
    \/ \E q \in DOMAIN queries : \E answer \in EngineAnswers : LoadPluginsSettle(q, answer)
    \/ \E q \in DOMAIN queries : \E i \in DOMAIN queries[q].plugins :
          \E answer \in MetaAnswers : MetaSettle(q, i, answer)
    \/ \E q \in DOMAIN queries : \E i \in DOMAIN queries[q].plugins :
          \E answer \in EngineAnswers : InfoSettle(q, i, answer)
    \/ \E q \in DOMAIN queries : BatchThen(q)
    \/ \E h \in DOMAIN handles : CloseTimer(h)

SpecMeta == InitMeta /\ [][NextMeta]_vars

\* requests for the details of plugins of any game while the context is
\* switched, the engine restarted and initialised: pluginDetails up to its
\* first call of the engine
InitLoot ==
    /\ LifeInit
    /\ PipelineAt(TRUE, {}, 1)
    /\ CycleIdle
    /\ MetaIdle

NextLoot ==
    \/ \E g \in {"g1", "g2"} : GameModeActivated(g)
    \/ RestartHelpers
    \/ \E p \in DOMAIN procs : GmcResume(p)
    \/ \E p \in DOMAIN procs : GmcFinish(p)
    \/ \E p \in DOMAIN procs : RestartResume(p)
    \/ \E i \in DOMAIN initProms : \E ok \in BOOLEAN : InitCreate(i, ok)
    \/ \E i \in DOMAIN initProms : InitLoad(i, TRUE)
    \/ \E h \in DOMAIN handles : CloseTimer(h)
    \/ \E g \in {"g1", "g2"} : Len(procs) < MaxCalls /\ PluginDetails(g, <<NameA>>)
    \/ \E p \in DOMAIN procs : GetLootResume(p)
    \/ \E p \in DOMAIN procs : GetLootFinish(p)
    \/ \E q \in DOMAIN queries : DetailsAfterGetLoot(q)

SpecLoot == InitLoot /\ [][NextLoot]_vars

-----------------------------------------------------------------------------
(* Cycle resolution: getGroup and getSolutions *)

\* enum EdgeType, the members the model draws from
EdgeTypes == {"userlistLoadAfter", "userlistRequirement", "group", "master"}

\* const user = [EdgeType.userLoadAfter, EdgeType.userRequirement]
user == {"userlistLoadAfter", "userlistRequirement"}

\* a group that is undefined
NoGroup == "undefined"

\* Array.prototype.find(iter => iter.name.toLowerCase() === pluginName.toLowerCase()):
\* the index of the first such entry, 0 standing for undefined
find(plugins, pluginName) ==
    IF \E i \in DOMAIN plugins : toLowerCase(plugins[i].name) = toLowerCase(pluginName)
      THEN CHOOSE i \in DOMAIN plugins :
             /\ toLowerCase(plugins[i].name) = toLowerCase(pluginName)
             /\ \A j \in 1..(i - 1) : toLowerCase(plugins[j].name) # toLowerCase(pluginName)
      ELSE 0

\* a lookup that takes a group from either list for a custom one
getGroupAnyList(pluginName) ==
    LET ulEdge == find(userlist, pluginName)
        mlEdge == find(masterlist, pluginName)
    IN IF ulEdge # 0 /\ userlist[ulEdge].group # NoGroup
         THEN [group |-> userlist[ulEdge].group, custom |-> TRUE]
       ELSE IF mlEdge # 0 /\ masterlist[mlEdge].group # NoGroup
         THEN [group |-> masterlist[mlEdge].group, custom |-> TRUE]
       ELSE [group |-> NoGroup, custom |-> FALSE]

\* getGroup(state, pluginName)
getGroup(pluginName) ==
    LET ulEdge == find(userlist, pluginName)
        mlEdge == find(masterlist, pluginName)
    IN IF ulEdge # 0 /\ userlist[ulEdge].group # NoGroup
         THEN [group |-> userlist[ulEdge].group, custom |-> TRUE]
       ELSE IF mlEdge # 0 /\ masterlist[mlEdge].group # NoGroup
         THEN [group |-> masterlist[mlEdge].group, custom |-> FALSE]
       ELSE [group |-> NoGroup, custom |-> FALSE]

\* cycle[(idx + 1) % cycle.length], with indices from 1
NextEdge(idx) == cycle[(idx % Len(cycle)) + 1]

\* the ids of the entries: `removerule:${edge.name}:${next.name}:${type}`,
\* `unassign:${name}`, `resetgroups:${edge.name}:${next.name}`
RemoveRuleId(name, next, type) == <<"removerule", ":">> \o name \o <<":">> \o next \o <<":", type>>
UnassignId(name) == <<"unassign", ":">> \o name
ResetGroupsId(name, next) == <<"resetgroups", ":">> \o name \o <<":">> \o next

\* an entry of the result, pushed by the map callback of edge idx
Checkbox(id, idx) == [id |-> id, value |-> FALSE, edge |-> idx]

\* what the map callback of edge idx pushes before its first await
Pushed(idx) ==
    LET edge == cycle[idx]
        next == NextEdge(idx)
    IN IF edge.typeOfEdgeToNextVertex \in user
         THEN <<Checkbox(RemoveRuleId(edge.name, next.name, edge.typeOfEdgeToNextVertex), idx)>>
       ELSE IF edge.typeOfEdgeToNextVertex = "group"
         THEN (IF getGroup(edge.name).custom
                 THEN <<Checkbox(UnassignId(edge.name), idx)>> ELSE <<>>)
              \o (IF getGroup(next.name).custom
                    THEN <<Checkbox(UnassignId(next.name), idx)>> ELSE <<>>)
       ELSE <<>>

\* the result after the map callbacks of the first n edges ran to their first await
RECURSIVE PushedUpTo(_)
PushedUpTo(n) == IF n = 0 THEN <<>> ELSE PushedUpTo(n - 1) \o Pushed(n)

\* getSolutions(t, cycle, loot) up to `await Promise.all(...)`: cycle.map runs
\* every callback to its first await, in order
GetSolutions ==
    /\ solPc = <<>>
    /\ solutions' = PushedUpTo(Len(cycle))
    /\ solPc' = [idx \in DOMAIN cycle |->
                   IF cycle[idx].typeOfEdgeToNextVertex = "group" THEN "groupsPath" ELSE "done"]
    /\ UNCHANGED <<cycle, userlist, masterlist, fixVars>>
    /\ UNCHANGED <<lifeVars, sortVars, metaVars>>

\* what loot.getGroupsPathAsync can settle with: a path with a user edge, a path
\* without one, a rejection
PathAnswers == {"user", "plain", "rejected"}

\* loot.getGroupsPathAsync of edge idx settles and the callback runs to its end
GroupsPathSettle(idx, path) ==
    /\ idx \in DOMAIN solPc
    /\ solPc[idx] = "groupsPath"
    /\ solPc' = [solPc EXCEPT ![idx] = IF path = "rejected" THEN "rejected" ELSE "done"]
    /\ solutions' = IF path = "user"
                      THEN Append(solutions,
                                  Checkbox(ResetGroupsId(cycle[idx].name, NextEdge(idx).name), idx))
                      ELSE solutions
    /\ UNCHANGED <<cycle, userlist, masterlist, fixVars>>
    /\ UNCHANGED <<lifeVars, sortVars, metaVars>>

\* Promise.all resolved: getSolutions returns result
SolutionsReturned == solPc # <<>> /\ \A idx \in DOMAIN solPc : solPc[idx] = "done"

\* the names of the cycles' vertices, and list entries for them
CycleNames == {NameA, Nameb}
ListEntries(names, groups) == [name : names, group : groups]

\* a list holds at most one entry per plugin
OnePerPlugin(plugins) ==
    \A i, j \in DOMAIN plugins :
        toLowerCase(plugins[i].name) = toLowerCase(plugins[j].name) => i = j

\* the sequences over S of length at most n
RECURSIVE SeqsUpTo(_, _)
SeqsUpTo(S, n) ==
    IF n = 0 THEN {<<>>}
    ELSE LET shorter == SeqsUpTo(S, n - 1)
         IN shorter \cup {Append(sq, x) : sq \in shorter, x \in S}

InitCycle ==
    /\ LifeAt(GoodStart)
    /\ SortIdle
    /\ cycle \in SeqsUpTo([name : CycleNames, typeOfEdgeToNextVertex : EdgeTypes], MaxCycle)
    /\ cycle # <<>>
    /\ userlist \in SeqsUpTo(ListEntries({Namea, Nameb}, {NoGroup, "late"}), 2)
    /\ OnePerPlugin(userlist)
    /\ masterlist \in SeqsUpTo(ListEntries({NameA, Nameb}, {"early"}), 2)
    /\ OnePerPlugin(masterlist)
    /\ solutions = <<>>
    /\ solPc = <<>>
    /\ FixIdle
    /\ MetaIdle

NextCycle ==
    \/ GetSolutions
    \/ \E idx \in DOMAIN cycle : \E path \in PathAnswers : GroupsPathSettle(idx, path)

SpecCycle == InitCycle /\ [][NextCycle]_vars

-----------------------------------------------------------------------------
(* Cycle resolution: the dialog of reportCycle and applyFix *)

\* `undefined` element of an array
Undefined == <<"undefined">>

\* key.split(':', 2): no piece after the second
splitTwo(key) ==
    IF \E i \in DOMAIN key : key[i] = ":"
      THEN LET i == CHOOSE k \in DOMAIN key :
                        key[k] = ":" /\ \A j \in 1..(k - 1) : key[j] # ":"
               rest == SubSeq(key, i + 1, Len(key))
           IN <<SubSeq(key, 1, i - 1),
                IF \E j \in DOMAIN rest : rest[j] = ":"
                  THEN SubSeq(rest, 1, (CHOOSE k \in DOMAIN rest :
                          rest[k] = ":" /\ \A j \in 1..(k - 1) : rest[j] # ":") - 1)
                  ELSE rest>>
      ELSE <<key>>

\* key.split(':')
RECURSIVE split(_)
split(key) ==
    IF \E i \in DOMAIN key : key[i] = ":"
      THEN LET i == CHOOSE k \in DOMAIN key :
                        key[k] = ":" /\ \A j \in 1..(k - 1) : key[j] # ":"
           IN <<SubSeq(key, 1, i - 1)>> \o split(SubSeq(key, i + 1, Len(key)))
      ELSE <<key>>

\* args[k], with indices from 0 as in the source
Arg(args, k) == IF k + 1 \in DOMAIN args THEN args[k + 1] ELSE Undefined

\* the order of characters (and of the words the model keeps whole) under localeCompare
Alphabet == <<":", "a", "A", "b", "c", "group", "master", "removerule", "resetgroups",
              "unassign", "userlistLoadAfter", "userlistRequirement", "x", "y">>
CharRank(ch) == CHOOSE i \in DOMAIN Alphabet : Alphabet[i] = ch

\* lhs.localeCompare(rhs)
RECURSIVE localeCompare(_, _)
localeCompare(lhs, rhs) ==
    IF lhs = <<>> /\ rhs = <<>> THEN 0
    ELSE IF lhs = <<>> THEN -1
    ELSE IF rhs = <<>> THEN 1
    ELSE IF CharRank(Head(lhs)) < CharRank(Head(rhs)) THEN -1
    ELSE IF CharRank(Head(lhs)) > CharRank(Head(rhs)) THEN 1
    ELSE localeCompare(Tail(lhs), Tail(rhs))

\* key.startsWith('resetgroups')
startsWithResetgroups(key) == key # <<>> /\ Head(key) = "resetgroups"

\* the compare function given to selected.sort
compareKeys(lhs, rhs) ==
    IF startsWithResetgroups(lhs) THEN -1
    ELSE IF startsWithResetgroups(rhs) THEN 1
    ELSE localeCompare(lhs, rhs)

\* selected.sort(compareKeys): insertion from the right
RECURSIVE InsertKey(_, _)
InsertKey(sorted, key) ==
    IF sorted = <<>> THEN <<key>>
    ELSE IF compareKeys(sorted[Len(sorted)], key) > 0
           THEN InsertKey(SubSeq(sorted, 1, Len(sorted) - 1), key) \o <<sorted[Len(sorted)]>>
           ELSE Append(sorted, key)

RECURSIVE sortKeys(_)
sortKeys(keys) ==
    IF keys = <<>> THEN <<>>
    ELSE InsertKey(sortKeys(SubSeq(keys, 1, Len(keys) - 1)), keys[Len(keys)])

\* the keys of result.input: the ids of the checkboxes, each id once
RECURSIVE ObjectKeysOf(_)
ObjectKeysOf(checkboxes) ==
    IF checkboxes = <<>> THEN <<>>
    ELSE LET front == ObjectKeysOf(SubSeq(checkboxes, 1, Len(checkboxes) - 1))
             id == checkboxes[Len(checkboxes)].id
         IN IF \E i \in DOMAIN front : front[i] = id THEN front ELSE Append(front, id)

\* Object.keys(result.input).filter(key => result.input[key])
Checked(keys, input) == SelectSeq(keys, LAMBDA key : key \in input)

\* the userlist actions of ./actions/userlist, as given to api.store.dispatch
removeRule(pluginId, reference, type, f) ==
    [type |-> "removeRule", id |-> pluginId, reference |-> reference, rule |-> type, fix |-> f]
setGroup(pluginId, group, f) ==
    [type |-> "setGroup", id |-> pluginId, reference |-> Undefined, rule |-> group, fix |-> f]
removeGroupRule(groupId, reference, f) ==
    [type |-> "removeGroupRule", id |-> groupId, reference |-> reference, rule |-> "group", fix |-> f]

\* group || 'default'
OrDefault(group) == IF group = NoGroup THEN "default" ELSE group

\* applyFix(key, loot) up to its await (or to its end), as invocation f
applyFix(key, f) ==
    LET args == split(key)
    IN IF Arg(args, 0) = <<"removerule">>
         THEN [key |-> key, pc |-> "done", from |-> "none", to |-> "none",
               sent |-> <<removeRule(Arg(args, 2), Arg(args, 1),
                                     IF Arg(args, 3) = <<"userlistRequirement">>
                                       THEN "requires" ELSE "after", f)>>]
       ELSE IF Arg(args, 0) = <<"unassign">>
         THEN [key |-> key, pc |-> "done", from |-> "none", to |-> "none",
               sent |-> <<setGroup(Arg(args, 1), NoGroup, f)>>]
       ELSE IF Arg(args, 0) = <<"resetgroups">>
         THEN [key |-> key, pc |-> "groupsPath",
               from |-> OrDefault(getGroup(Arg(args, 1)).group),
               to |-> OrDefault(getGroup(Arg(args, 2)).group),
               sent |-> <<>>]
       ELSE [key |-> key, pc |-> "invalid", from |-> "none", to |-> "none", sent |-> <<>>]

\* selected.forEach(key => this.applyFix(key, loot)): the invocations, in order
ForEachApplyFix(keys) == [f \in DOMAIN keys |-> applyFix(keys[f], f)]

\* everything the invocations 1..n dispatched before their first await
RECURSIVE SentUpTo(_, _)
SentUpTo(invocations, n) ==
    IF n = 0 THEN <<>> ELSE SentUpTo(invocations, n - 1) \o invocations[n].sent

\* doSort called reportCycle (without awaiting it)
CycleReported == \E r \in DOMAIN reqs : reqs[r].eff.cycle > 0

\* reportCycle up to the await inside getSolutions
ReportCycle ==
    /\ CycleReported
    /\ dialog = "none"
    /\ GetSolutions

\* reportCycle after getSolutions: renderCycle (which asks the engine for the
\* path of every group edge and may be rejected), then sendNotification
Notify(rendered) ==
    /\ SolutionsReturned
    /\ dialog = "none"
    /\ rendered \/ \E idx \in DOMAIN cycle : cycle[idx].typeOfEdgeToNextVertex = "group"
    /\ dialog' = IF rendered THEN "notified" ELSE "failed"
    /\ UNCHANGED <<cycle, userlist, masterlist, solutions, solPc, selected, fixes, dispatched>>
    /\ UNCHANGED <<lifeVars, sortVars, metaVars>>

\* the notification's action 'More': showDialog
More ==
    /\ dialog = "notified"
    /\ dialog' = "open"
    /\ UNCHANGED <<cycle, userlist, masterlist, solutions, solPc, selected, fixes, dispatched>>
    /\ UNCHANGED <<lifeVars, sortVars, metaVars>>

\* the dialog ends with 'Close'
DialogClose ==
    /\ dialog = "open"
    /\ dialog' = "closed"
    /\ UNCHANGED <<cycle, userlist, masterlist, solutions, solPc, selected, fixes, dispatched>>
    /\ UNCHANGED <<lifeVars, sortVars, metaVars>>

\* an Apply Selected handler that sorts again whatever was selected
ApplySelectedAlways(input, opposite) ==
    /\ dialog = "open"
    /\ solutions # <<>>
    /\ input \subseteq {solutions[i].id : i \in DOMAIN solutions}
    /\ LET keys == IF opposite THEN Reverse(ObjectKeysOf(solutions))
                               ELSE ObjectKeysOf(solutions)
           sorted == sortKeys(Checked(keys, input))
           invocations == ForEachApplyFix(sorted)
       IN /\ selected' = sorted
          /\ fixes' = invocations
          /\ dispatched' = dispatched \o SentUpTo(invocations, Len(invocations))
          /\ onSort(TRUE, FALSE)
    /\ dialog' = "applied"
    /\ UNCHANGED <<cycle, userlist, masterlist, solutions, solPc>>
    /\ UNCHANGED <<autoSort, pluginList, loadOrder, files, mSortPromise, sortProms,
                   publishedOrder, sorting, mUserlistTime, userlistMtime>>
    /\ UNCHANGED <<lifeVars, metaVars>>

\* the dialog ends with 'Apply Selected', input holding true for the ids of
\* `input`; the keys of result.input come in the order of the checkboxes or in
\* the opposite one
ApplySelected(input, opposite) ==
    /\ dialog = "open"
    /\ solutions # <<>>
    /\ input \subseteq {solutions[i].id : i \in DOMAIN solutions}
    /\ LET keys == IF opposite THEN Reverse(ObjectKeysOf(solutions))
                               ELSE ObjectKeysOf(solutions)
           sorted == sortKeys(Checked(keys, input))
           invocations == ForEachApplyFix(sorted)
       IN /\ selected' = sorted
          /\ fixes' = invocations
          /\ dispatched' = dispatched \o SentUpTo(invocations, Len(invocations))
          /\ IF Len(sorted) > 0 THEN onSort(TRUE, FALSE) ELSE UNCHANGED reqs
    /\ dialog' = "applied"
    /\ UNCHANGED <<cycle, userlist, masterlist, solutions, solPc>>
    /\ UNCHANGED <<autoSort, pluginList, loadOrder, files, mSortPromise, sortProms,
                   publishedOrder, sorting, mUserlistTime, userlistMtime>>
    /\ UNCHANGED <<lifeVars, metaVars>>

\* the path loot.getGroupsPathAsync(from, to) resolves with
GroupsPath(answer, from, to) ==
    IF answer = "user"
      THEN <<[name |-> from, typeOfEdgeToNextVertex |-> "userlistLoadAfter"],
             [name |-> to, typeOfEdgeToNextVertex |-> "master"]>>
      ELSE <<[name |-> from, typeOfEdgeToNextVertex |-> "master"],
             [name |-> to, typeOfEdgeToNextVertex |-> "master"]>>

\* path.forEach: removeGroupRule for every user edge among the first n of the path
RECURSIVE ResetPath(_, _, _)
ResetPath(path, n, f) ==
    IF n = 0 THEN <<>>
    ELSE ResetPath(path, n - 1, f)
         \o (IF path[n].typeOfEdgeToNextVertex \in user
               THEN <<removeGroupRule(OrDefault(path[(n % Len(path)) + 1].name),
                                      OrDefault(path[n].name), f)>>
               ELSE <<>>)

\* loot.getGroupsPathAsync of invocation f of applyFix settles and the
\* invocation runs to its end
FixPathSettle(f, answer) ==
    /\ f \in DOMAIN fixes
    /\ fixes[f].pc = "groupsPath"
    /\ LET path == GroupsPath(answer, fixes[f].from, fixes[f].to)
           sent == IF answer = "rejected" THEN <<>> ELSE ResetPath(path, Len(path), f)
       IN /\ fixes' = [fixes EXCEPT ![f].pc = IF answer = "rejected" THEN "rejected" ELSE "done",
                                    ![f].sent = sent]
          /\ dispatched' = dispatched \o sent
    /\ UNCHANGED <<cycle, userlist, masterlist, solutions, solPc, dialog, selected>>
    /\ UNCHANGED <<lifeVars, sortVars, metaVars>>

\* the vertices of the cycles the dialog is checked with: a name of one
\* character, a longer one, one with the separator of the ids in it
NameBc == <<"b", "c">>
NameColon == <<"x", ":", "y">>
VertexNames == <<{NameA}, {NameBc, NameColon}, {Nameb}>>
NamesOfVertex(i) == VertexNames[((i - 1) % Len(VertexNames)) + 1]

\* a sort of the usable handle that fails with a cycle of distinct vertices
InitApply ==
    /\ LifeAt(GoodStart)
    /\ PipelineAt(TRUE, {}, 1)
    /\ \E n \in 2..MaxCycle : \E types \in [1..n -> EdgeTypes] :
          \E names \in [1..n -> UNION {VertexNames[i] : i \in DOMAIN VertexNames}] :
             /\ \A i \in 1..n : names[i] \in NamesOfVertex(i)
             /\ cycle = [i \in 1..n |->
                            [name |-> names[i], typeOfEdgeToNextVertex |-> types[i]]]
    /\ userlist \in {<<>>,
                     <<[name |-> Namea, group |-> "late"]>>,
                     <<[name |-> Namea, group |-> "late"], [name |-> NameBc, group |-> "late"]>>}
    /\ masterlist = <<>>
    /\ solutions = <<>>
    /\ solPc = <<>>
    /\ FixIdle
    /\ MetaIdle

\* the engine answers the first sort with the cycle, the sort after the fixes
\* with an order
NextApply ==
    \/ SortCalled(1)
    \/ \E r \in DOMAIN reqs : SortAfterInit(r)
    \/ \E r \in DOMAIN reqs : SortAfterJoin(r)
    \/ \E r \in DOMAIN reqs : \E ok \in BOOLEAN : ReadLists(r, ok)
    \/ \E r \in DOMAIN reqs : \E ans \in SortAnswers(reqs[r].names) :
          ans.type = (IF r = 1 THEN "cyclic" ELSE "ok") /\ EngineSettle(r, ans)
    \/ \E r \in DOMAIN reqs : DoSortResume(r)
    \/ ReportCycle
    \/ \E idx \in DOMAIN cycle : \E path \in PathAnswers : GroupsPathSettle(idx, path)
    \/ \E rendered \in BOOLEAN : Notify(rendered)
    \/ More
    \/ DialogClose
    \/ \E input \in SUBSET {solutions[i].id : i \in DOMAIN solutions} :
          \E opposite \in BOOLEAN : ApplySelected(input, opposite)
    \/ \E f \in DOMAIN fixes : \E answer \in PathAnswers : FixPathSettle(f, answer)

SpecApply == InitApply /\ [][NextApply]_vars

\* one sort() call over any plugin list and load order state
AllIds == <<Namea, Nameb, Namec, Named>>

\* the name on disk of the plugin with the given id
OnDisk(pluginId) == IF pluginId = Namea THEN NameA ELSE pluginId

InitInput ==
    /\ LifeAt(GoodStart)
    /\ autoSort = TRUE
    /\ \E deployed \in [1..MaxPlugins -> BOOLEAN] :
         pluginList = [i \in 1..MaxPlugins |->
                         [id |-> AllIds[i], deployed |-> deployed[i],
                          filePath |-> <<"data", OnDisk(AllIds[i])>>]]
    /\ \E known \in SUBSET {AllIds[i] : i \in 1..MaxPlugins} :
         \E pos \in [known -> 0..MaxPos] :
            loadOrder = [pluginId \in known |-> [loadOrder |-> pos[pluginId]]]
    /\ files = {}
    /\ mSortPromise = 1
    /\ sortProms = <<[st |-> "resolved", val |-> <<>>, err |-> NoErr]>>
    /\ reqs = <<>>
    /\ publishedOrder = <<>>
    /\ sorting = FALSE
    /\ mUserlistTime = 1
    /\ userlistMtime = 1
    /\ CycleIdle
    /\ MetaIdle

NextInput ==
    \/ SortCalled(1)
    \/ \E r \in DOMAIN reqs : SortAfterInit(r)
    \/ \E r \in DOMAIN reqs : SortAfterJoin(r)
    \/ \E r \in DOMAIN reqs : \E ok \in BOOLEAN : ReadLists(r, ok)
    \/ \E r \in DOMAIN reqs : \E ans \in SortAnswers(reqs[r].names) : EngineSettle(r, ans)
    \/ \E r \in DOMAIN reqs : DoSortResume(r)
    \/ \E r \in DOMAIN reqs : StatDone(r)
    \/ \E r \in DOMAIN reqs : Unwind(r)

SpecInput == InitInput /\ [][NextInput]_vars

-----------------------------------------------------------------------------
(* Properties of the sort pipeline and of the proposal list *)

Range(seq) == {seq[i] : i \in DOMAIN seq}

\* the onSort invocations whose sortPluginsAsync call has not settled
InFlight == {r \in DOMAIN reqs : reqs[r].pc = "sorting"}

\* C1: at most one compute-sort call (sortPluginsAsync) is in flight at any
\* time, for any interleaving of sort requests.
C1_OneSortInFlight == Cardinality(InFlight) <= 1

\* out is input with one occurrence of name removed, the rest in the same order
IsRemovalOf(input, name, out) ==
    \E i \in DOMAIN input :
        /\ input[i] = name
        /\ out = [j \in 1..(Len(input) - 1) |-> IF j < i THEN input[j] ELSE input[j + 1]]

\* the k-th failure of a run names an invalid item that calls for a retry
RetryDue(rq, k) ==
    /\ rq.fails[k].type = "invalid"
    /\ rq.fails[k].name \notin files
    /\ rq.fails[k].name \in Range(rq.disp[k])

\* the run has dealt with its last failure
Handled(rq) == rq.pc \in {"unwind", "done"}

\* C5: after a failure naming one invalid item X, a retry is dispatched iff
\* X's file does not exist and X is in the current input; the retry's input is
\* the previous input with one occurrence of X removed, order kept; in every
\* other case no retry is dispatched and exactly one warning is surfaced.
C5_RetryWithoutInvalidItem ==
    \A r \in DOMAIN reqs :
      LET rq == reqs[r] IN
        /\ Len(rq.disp) <= Len(rq.fails) + 1
        /\ \A k \in DOMAIN rq.fails :
             rq.fails[k].type = "invalid" =>
               /\ Len(rq.disp) > k =>
                    /\ RetryDue(rq, k)
                    /\ IsRemovalOf(rq.disp[k], rq.fails[k].name, rq.disp[k + 1])
               /\ (Handled(rq) /\ RetryDue(rq, k)) => Len(rq.disp) > k
               /\ (Handled(rq) /\ ~RetryDue(rq, k)) =>
                    /\ Len(rq.disp) = k
                    /\ rq.eff.warn = 1
        /\ (\A k \in DOMAIN rq.fails : RetryDue(rq, k)) => rq.eff.warn = 0

\* a run retried twice and then gave up with a warning
C5_Witness ==
    \E r \in DOMAIN reqs :
        /\ reqs[r].pc = "done"
        /\ Len(reqs[r].disp) = 3
        /\ Len(reqs[r].fails) = 3
        /\ reqs[r].fails[3].type = "invalid"
        /\ reqs[r].eff.warn = 1

\* a step of onSort invocation r
StepOf(r) ==
    \/ SortAfterInit(r)
    \/ SortAfterJoin(r)
    \/ \E ok \in BOOLEAN : ReadLists(r, ok)
    \/ \E ans \in SortAnswers(reqs[r].names) : EngineSettle(r, ans)
    \/ DoSortResume(r)
    \/ StatDone(r)
    \/ Unwind(r)

\* sort() calls one after the other against the usable handle, with any disk
\* state; the event loop runs every continuation whose promise has settled,
\* and the engine answers every call
InitRuns ==
    /\ LifeAt(GoodStart)
    /\ \E onDisk \in SUBSET {NameA, Nameb} : PipelineAt(TRUE, onDisk, 1)
    /\ CycleIdle
    /\ MetaIdle

NextRuns ==
    \/ Returned /\ SortCalled(MaxRuns)
    \/ \E r \in DOMAIN reqs : SortAfterInit(r)
    \/ \E r \in DOMAIN reqs : SortAfterJoin(r)
    \/ \E r \in DOMAIN reqs : \E ok \in BOOLEAN : ReadLists(r, ok)
    \/ \E r \in DOMAIN reqs : \E ans \in SortAnswers(reqs[r].names) : EngineSettle(r, ans)
    \/ \E r \in DOMAIN reqs : DoSortResume(r)
    \/ \E r \in DOMAIN reqs : StatDone(r)
    \/ \E r \in DOMAIN reqs : Unwind(r)

SpecFair == InitRuns /\ [][NextRuns]_vars /\ WF_vars(\E r \in DOMAIN reqs : StepOf(r))

\* no run has dispatched more often than its first input has items, plus one,
\* and every retry input is one item shorter than the input before
DispatchesBounded ==
    \A r \in DOMAIN reqs :
      LET rq == reqs[r] IN
        /\ rq.disp # <<>> => Len(rq.disp) <= Len(rq.disp[1]) + 1
        /\ \A k \in 1..(Len(rq.disp) - 1) : Len(rq.disp[k + 1]) = Len(rq.disp[k]) - 1

\* C6: a run started with n items dispatches compute-sort at most n+1 times,
\* every retry shrinking the input by one item, and then terminates: whenever
\* a run is under way, eventually every run has returned.
C6_RetriesBounded == []DispatchesBounded /\ (~Returned ~> Returned)

\* a run used all its n+1 dispatches (n = 2) and returned
C6_Witness ==
    \E r \in DOMAIN reqs :
        /\ reqs[r].pc = "done"
        /\ Len(reqs[r].disp) = 3
        /\ Len(reqs[r].disp[1]) = 2

\* the entry of the plugin list whose file has the given name
EntryNamed(name) ==
    pluginList[CHOOSE i \in DOMAIN pluginList : basename(pluginList[i].filePath) = name]

DeployedNames ==
    {basename(pluginList[i].filePath) : i \in {j \in DOMAIN pluginList : pluginList[j].deployed}}

\* plugin x has a lower last known position than plugin y; no known position
\* counts as lower than every known one
PositionBelow(x, y) ==
    \/ x \notin DOMAIN loadOrder /\ y \in DOMAIN loadOrder
    \/ /\ x \in DOMAIN loadOrder
       /\ y \in DOMAIN loadOrder
       /\ loadOrder[x].loadOrder < loadOrder[y].loadOrder

\* C7: the input of the first compute-sort dispatch holds exactly the file
\* names of the deployed items, in non-decreasing order of last known position
\* (no known position lowest); no retry input holds an item that is not deployed.
C7_CandidateInput ==
    \A r \in DOMAIN reqs :
      LET rq == reqs[r] IN
        rq.disp # <<>> =>
          /\ Range(rq.disp[1]) = DeployedNames
          /\ Len(rq.disp[1]) = Cardinality(DeployedNames)
          /\ \A i, j \in DOMAIN rq.disp[1] :
               i < j => ~PositionBelow(EntryNamed(rq.disp[1][j]).id, EntryNamed(rq.disp[1][i]).id)
          /\ \A k \in DOMAIN rq.disp : Range(rq.disp[k]) \subseteq DeployedNames

\* a dispatch whose input places an item without position before one with a
\* position, while an item that is not deployed exists
C7_Witness ==
    \E r \in DOMAIN reqs :
        /\ Len(reqs[r].disp) >= 2
        /\ Len(reqs[r].disp[1]) >= 2
        /\ EntryNamed(reqs[r].disp[1][1]).id \notin DOMAIN loadOrder
        /\ EntryNamed(reqs[r].disp[1][2]).id \in DOMAIN loadOrder
        /\ \E i \in DOMAIN pluginList : ~pluginList[i].deployed

\* the run's compute-sort ended in a failure other than 'already closed'
EndedInFailure(rq) ==
    /\ rq.pc = "done"
    /\ rq.fails # <<>>
    /\ rq.fails[Len(rq.fails)].type # "closed"

\* C8: when the compute-sort of a sort() call ends in a failure that is not the
\* already-closed case, the callback receives a non-null error and the promise
\* returned by sort() is rejected; when it succeeds the callback receives null
\* and the promise resolves.
C8_FailureReported ==
    \A r \in DOMAIN reqs :
      LET rq == reqs[r] IN
        (rq.pc = "done" /\ rq.manual /\ rq.cb /\ rq.disp # <<>>) =>
          /\ Len(rq.cbs) = 1
          /\ IF EndedInFailure(rq)
               THEN rq.cbs[1] # "null" /\ sort(rq) = "rejected"
               ELSE rq.cbs[1] = "null" /\ sort(rq) = "resolved"

\* the conditions under which a sort request is a silent no-op, as the
\* invocation met them
SilentNoOp(rq) ==
    \/ ~rq.manual /\ ~autoSort
    \/ /\ rq.seen # <<>>
       /\ \/ rq.seen[1].active # rq.seen[1].game
          \/ ~gameSupported(rq.seen[1].active)
          \/ rq.seen[1].loot = NoLoot
          \/ rq.seen[1].closed

\* C9: a sort request is a silent no-op (nothing dispatched, reloaded,
\* published, raised, sent or dismissed) when manual is false and auto-sort is
\* off, or the active context differs from the handle's, or is unsupported, or
\* the handle is undefined or closed; in every other case it dispatches.
C9_SilentNoOp ==
    \A r \in DOMAIN reqs :
      LET rq == reqs[r] IN
        /\ SilentNoOp(rq) => (rq.eff = ZeroEff /\ rq.disp = <<>>)
        /\ (rq.pc = "done" /\ ~SilentNoOp(rq)) => rq.disp # <<>>

\* a manual request met a closed handle and did nothing
C9_Witness ==
    \E r \in DOMAIN reqs :
        /\ reqs[r].pc = "done"
        /\ reqs[r].manual
        /\ reqs[r].seen # <<>>
        /\ reqs[r].seen[1].closed
        /\ reqs[r].disp = <<>>

\* the entries of the result that edge idx contributed, with the given prefix
EntriesOf(idx, prefix) ==
    SelectSeq(solutions, LAMBDA e : e.edge = idx /\ e.id[1] = prefix)

\* the plugin's group is a user override: the userlist assigns it a group
UserOverride(pluginName) ==
    \E i \in DOMAIN userlist :
        /\ toLowerCase(userlist[i].name) = toLowerCase(pluginName)
        /\ userlist[i].group # NoGroup

\* C10: the returned proposal list holds, for every user load-after or user
\* requirement edge, exactly one remove-rule entry naming the edge's source and
\* its successor in the cycle; for every group edge one clear-override entry
\* for each of its two endpoints whose group is a user override; an edge of any
\* other type contributes no remove-rule and no clear-override entry.
C10_ProposalList ==
    SolutionsReturned =>
      \A idx \in DOMAIN cycle :
        LET edge == cycle[idx]
            next == cycle[IF idx = Len(cycle) THEN 1 ELSE idx + 1]
            rules == EntriesOf(idx, "removerule")
            clears == EntriesOf(idx, "unassign")
        IN /\ edge.typeOfEdgeToNextVertex \in {"userlistLoadAfter", "userlistRequirement"} =>
                /\ Len(rules) = 1
                /\ rules[1].id = <<"removerule", ":">> \o edge.name \o <<":">> \o next.name
                                   \o <<":", edge.typeOfEdgeToNextVertex>>
                /\ clears = <<>>
           /\ edge.typeOfEdgeToNextVertex = "group" =>
                /\ rules = <<>>
                /\ Len(SelectSeq(clears, LAMBDA e : e.id = <<"unassign", ":">> \o edge.name))
                     = (IF UserOverride(edge.name) THEN 1 ELSE 0)
                       + (IF next.name = edge.name /\ UserOverride(next.name) THEN 1 ELSE 0)
                /\ Len(SelectSeq(clears, LAMBDA e : e.id = <<"unassign", ":">> \o next.name))
                     = (IF UserOverride(next.name) THEN 1 ELSE 0)
                       + (IF next.name = edge.name /\ UserOverride(edge.name) THEN 1 ELSE 0)
                /\ \A i \in DOMAIN clears :
                     clears[i].id \in {<<"unassign", ":">> \o edge.name,
                                       <<"unassign", ":">> \o next.name}
           /\ edge.typeOfEdgeToNextVertex \notin {"userlistLoadAfter", "userlistRequirement", "group"} =>
                rules = <<>> /\ clears = <<>>

\* the list for the cycle A --(user rule)--> b --(group rule)--> A with both
\* groups overridden: one remove-rule entry and two clear-override entries
C10_Witness ==
    /\ SolutionsReturned
    /\ cycle = <<[name |-> NameA, typeOfEdgeToNextVertex |-> "userlistLoadAfter"],
                 [name |-> Nameb, typeOfEdgeToNextVertex |-> "group"]>>
    /\ UserOverride(NameA)
    /\ UserOverride(Nameb)
    /\ Len(solutions) = 3

-----------------------------------------------------------------------------
(* Specification of the lifecycle *)

InitLife == LifeInit /\ SortIdle /\ CycleIdle /\ MetaIdle

SpecLife == InitLife /\ [][NextLife]_vars

-----------------------------------------------------------------------------
(* Properties of the lifecycle *)

\* the { game, loot } the current-handle slot holds, once it is resolved
Current == initProms[mInitPromise]

\* nothing is left to happen: every handler returned, every promise is
\* resolved, every teardown timer has fired
LifeSettled ==
    /\ \A p \in DOMAIN procs : procs[p].pc = "done"
    /\ \A i \in DOMAIN initProms : initProms[i].st = "resolved"
    /\ \A h \in DOMAIN handles : handles[h].closed = handles[h].sched

OnlyContextSwitches == \A p \in DOMAIN procs : procs[p].kind = "gmc"

\* C2: after context switches only, once every initialization has settled and
\* every teardown timer has fired, every engine handle that was created and is
\* not the current one has been closed.
C2_SupersededHandlesClosed ==
    (OnlyContextSwitches /\ LifeSettled) =>
        \A h \in DOMAIN handles : h # Current.loot => handles[h].closed >= 1

\* C3: no engine handle has close() scheduled on it more than once.
C3_CloseScheduledOnce ==
    \A h \in DOMAIN handles : handles[h].sched <= 1

\* C4: after context switches only, once everything has settled, the
\* current-handle slot resolves to the context of the most recent
\* onGameModeChanged call.
C4_LastSwitchWins ==
    (OnlyContextSwitches /\ LifeSettled /\ Len(procs) > 0) =>
        Current.game = procs[Len(procs)].gameMode

-----------------------------------------------------------------------------
(* Properties of the dialog and of applyFix *)

\* C11: when 'Apply Selected' runs, every mutation of a reset-group-path
\* proposal (removeGroupRule) reaches the rule store before any mutation of a
\* remove-rule or unassign-group proposal (removeRule, setGroup), in whatever
\* order the proposals were selected
C11_ResetGroupsFirst ==
    \A i, j \in DOMAIN dispatched :
        (dispatched[i].type = "removeGroupRule"
            /\ dispatched[j].type \in {"removeRule", "setGroup"}) => i < j

\* a name without the separator of the ids
NoColon(name) == \A i \in DOMAIN name : name[i] # ":"

\* C12: the id of every proposal built for an edge whose plugin names hold no
\* ':' is split by applyFix into the kind of the proposal, the names of the
\* edge's plugins at the positions the id was built with, and (for a
\* remove-rule proposal) the type of the edge
C12_IdRoundTrip ==
    \A i \in DOMAIN solutions :
        LET edge == cycle[solutions[i].edge]
            next == NextEdge(solutions[i].edge)
            args == split(solutions[i].id)
        IN (NoColon(edge.name) /\ NoColon(next.name)) =>
              \/ /\ edge.typeOfEdgeToNextVertex \in user
                 /\ args = <<<<"removerule">>, edge.name, next.name,
                             <<edge.typeOfEdgeToNextVertex>>>>
              \/ /\ edge.typeOfEdgeToNextVertex = "group"
                 /\ \/ args = <<<<"unassign">>, edge.name>>
                    \/ args = <<<<"unassign">>, next.name>>
                    \/ args = <<<<"resetgroups">>, edge.name, next.name>>

\* applyFix ran for a remove-rule proposal of the edge A -> bc and for a
\* reset-group-path proposal
C12_Witness ==
    /\ dialog = "applied"
    /\ \E f \in DOMAIN fixes :
          /\ fixes[f].key = RemoveRuleId(NameA, NameBc, "userlistRequirement")
          /\ fixes[f].sent = <<removeRule(NameBc, NameA, "requires", f)>>
    /\ \E f \in DOMAIN fixes : Head(fixes[f].key) = "resetgroups"

\* the onSort invocations started by the Apply Selected handler
ReSorts == {r \in DOMAIN reqs : r > 1}

\* C15: after 'Apply Selected' with a selection, the sort is only started
\* again once every mutation of every selected proposal has been given to
\* the rule store: no applyFix invocation still waits for its group path
C15_ReSortAfterFixes ==
    ReSorts # {} => \A f \in DOMAIN fixes : fixes[f].pc # "groupsPath"

\* C20: a sort that failed with a cycle is not computed again and the rule
\* store is not changed unless the user chose 'Apply Selected' with at least
\* one proposal selected: the failed invocation gave the engine one sort, and
\* after 'Close' or 'Apply Selected' with nothing selected there is neither a
\* mutation nor another sort
C20_NothingOnItsOwn ==
    /\ \A r \in DOMAIN reqs : reqs[r].eff.cycle > 0 => Len(reqs[r].disp) = 1
    /\ (dispatched # <<>> \/ ReSorts # {}) => (dialog = "applied" /\ selected # <<>>)
    /\ selected # <<>> => dialog = "applied"

\* 'Apply Selected' with a selection: a mutation reached the rule store and
\* the sort that followed published an order
C20_Witness ==
    /\ dialog = "applied"
    /\ selected # <<>>
    /\ dispatched # <<>>
    /\ \E r \in ReSorts : reqs[r].pc = "done" /\ reqs[r].eff.publish = 1

-----------------------------------------------------------------------------
(* Properties of pluginDetails and getLoot *)

\* C13: every invocation of pluginDetails calls its callback exactly once
\* with a result, whatever the engine answers: never twice, and once when the
\* invocation has returned
C13_CallbackOnce ==
    \A q \in DOMAIN queries :
        /\ Len(queries[q].cbs) <= 1
        /\ queries[q].pc = "done" => Len(queries[q].cbs) = 1

\* C14: when the engine is closed while a batch is under way, the result
\* holds the empty record for every plugin whose lookup had not returned by
\* then, and the closure alone raises no 'loot-details-error' notification
C14_ClosedBatch ==
    \A q \in DOMAIN queries :
        /\ \A i \in queries[q].late : queries[q].result[i] = "empty"
        /\ (\E n \in DOMAIN queries[q].notes : queries[q].notes[n] = "loot-details-error")
              => queries[q].error /\ ~queries[q].closed

\* the invocations of getLoot
GetLoots == {p \in DOMAIN procs : procs[p].kind = "getLoot"}

\* C19: getLoot(gameId) resolves to a result whose game is gameId, whatever
\* context switches and restarts happen meanwhile; when the promise it first
\* awaited resolved to another game it has called onGameModeChanged(gameId)
\* and awaits the promise that call stored
C19_GetLootContext ==
    \A p \in GetLoots :
        /\ procs[p].pc = "done" =>
              /\ GetLootResult(p).st = "resolved"
              /\ GetLootResult(p).game = procs[p].gameMode
        /\ (procs[p].pc # "awaitOld"
               /\ initProms[procs[p].initProm].game # procs[p].gameMode) =>
              \E c \in DOMAIN procs :
                  /\ procs[c].kind = "gmc"
                  /\ procs[c].gameMode = procs[p].gameMode
                  /\ procs[c].onRes = procs[p].newProm

\* getLoot changed the context to its game and returned the instance created
\* for it, while another handler had changed the context as well
C19_Witness ==
    \E p \in GetLoots :
        /\ procs[p].pc = "done"
        /\ procs[p].newProm # 0
        /\ GetLootResult(p).loot # NoLoot
        /\ \E c \in DOMAIN procs :
              procs[c].kind = "gmc" /\ procs[c].gameMode # procs[p].gameMode

-----------------------------------------------------------------------------
(* Properties of a lifecycle that fails *)

\* what the onSort invocation r awaited as mInitPromise
Awaited(r) == initProms[reqs[r].initProm]

\* C16: a failure of the lifecycle never reaches a caller of sort.  No
\* promise stored in mInitPromise is ever rejected; when the instance could
\* not be created or the game is not supported it resolves to that game with
\* an undefined handle, and a sort that awaited such a promise returns without
\* doing or reporting anything and its caller's promise resolves; a failure to
\* update the masterlist or to load the lists leaves the handle defined
C16_LifecycleFailureContained ==
    /\ \A i \in DOMAIN initProms : initProms[i].st \in {"pending", "resolved"}
    /\ \A i \in DOMAIN initProms :
          (initProms[i].stage = "createFailed" \/ ~gameSupported(initProms[i].game)) =>
             initProms[i].loot = NoLoot
    /\ \A i \in DOMAIN initProms :
          initProms[i].stage = "loadFailed" =>
             /\ initProms[i].st = "resolved"
             /\ initProms[i].loot # NoLoot
             /\ handles[initProms[i].loot].game = initProms[i].game
    /\ \A r \in DOMAIN reqs :
          reqs[r].pc = "done" =>
             /\ sort(reqs[r]) = "resolved"
             /\ Awaited(r).loot = NoLoot =>
                   /\ reqs[r].eff = ZeroEff
                   /\ reqs[r].disp = <<>>
                   /\ reqs[r].fails = <<>>

\* the instance of the active game could not be created, and a sort() called
\* after that has returned
C16_Witness ==
    /\ \E i \in DOMAIN initProms :
          initProms[i].stage = "createFailed" /\ initProms[i].game = activeGame
    /\ \A p \in DOMAIN procs : procs[p].pc = "done"
    /\ initProms[mInitPromise].st = "resolved"
    /\ initProms[mInitPromise].loot = NoLoot
    /\ \E r \in DOMAIN reqs :
          /\ reqs[r].pc = "done"
          /\ reqs[r].initProm = mInitPromise
          /\ Awaited(r).game = activeGame

-----------------------------------------------------------------------------
(* Properties of the callback of onSort *)

\* C17: every invocation of onSort that was given a callback calls it
\* exactly once, whatever the outcome: never twice, and once when the
\* invocation has returned
C17_SortCallbackOnce ==
    \A r \in DOMAIN reqs :
        reqs[r].cb =>
            /\ Len(reqs[r].cbs) <= 1
            /\ reqs[r].pc = "done" => Len(reqs[r].cbs) = 1

-----------------------------------------------------------------------------
(* Properties of the proposal list, continued *)

\* C18: the proposal list never holds two entries with the same identifier
C18_DistinctIds ==
    \A i, j \in DOMAIN solutions : solutions[i].id = solutions[j].id => i = j

-----------------------------------------------------------------------------
(* The lists: loaded by init, reloaded by readLists, the userlist edited *)

\* the edit times a userlist can have (0: there is no userlist)
UserlistTimes == 0 .. 2

\* the sort pipeline of a fresh LootInterface: no lists were ever loaded
PipelineNew(mtime) ==
    /\ autoSort = TRUE
    /\ pluginList = SomePlugins
    /\ loadOrder = SomeLoadOrder
    /\ files = {}
    /\ mSortPromise = 1
    /\ sortProms = <<[st |-> "resolved", val |-> <<>>, err |-> NoErr]>>
    /\ reqs = <<>>
    /\ publishedOrder = <<>>
    /\ sorting = FALSE
    /\ mUserlistTime = -1
    /\ userlistMtime = mtime

\* the user (or the rule dialog) writes, creates or deletes the userlist
UserlistWritten(mtime) ==
    /\ mtime # userlistMtime
    /\ userlistMtime' = mtime
    /\ UNCHANGED <<autoSort, pluginList, loadOrder, files, mSortPromise, sortProms,
                   reqs, publishedOrder, sorting, mUserlistTime>>
    /\ UNCHANGED <<lifeVars, cycleVars, metaVars>>

InitLists ==
    /\ LifeInit
    /\ \E mtime \in {0, 1} : PipelineNew(mtime)
    /\ CycleIdle
    /\ MetaIdle

NextLists ==
    \/ \E g \in {"g1", "u"} : Len(procs) < MaxSwitches /\ GameModeActivated(g)
    \/ \E p \in DOMAIN procs : GmcResume(p)
    \/ \E p \in DOMAIN procs : GmcFinish(p)
    \/ \E i \in DOMAIN initProms : InitCreate(i, TRUE)
    \/ \E i \in DOMAIN initProms : \E ok \in BOOLEAN : InitLoad(i, ok)
    \/ \E h \in DOMAIN handles : CloseTimer(h)
    \/ \E mtime \in UserlistTimes : Returned /\ UserlistWritten(mtime)
    \/ Returned /\ SortCalled(MaxSortReqs)
    \/ \E r \in DOMAIN reqs : SortAfterInit(r)
    \/ \E r \in DOMAIN reqs : SortAfterJoin(r)
    \/ \E r \in DOMAIN reqs : \E ok \in BOOLEAN : ReadLists(r, ok)
    \/ \E r \in DOMAIN reqs : \E ans \in SortAnswers(reqs[r].names) :
          ans.type \in {"ok", "closed", "other"} /\ EngineSettle(r, ans)
    \/ \E r \in DOMAIN reqs : DoSortResume(r)

SpecLists == InitLists /\ [][NextLists]_vars

-----------------------------------------------------------------------------
(* Properties of the activity flag, the list reload and the published order *)

\* C21: the 'sorting' activity is raised whenever the lists are being read
\* or a sortPluginsAsync call is unsettled, every onSort invocation that has
\* returned lowered it as often as it raised it, and it is lowered once every
\* invocation has returned
C21_SortingFlag ==
    /\ (\E r \in DOMAIN reqs : reqs[r].pc \in {"readLists", "sorting"}) => sorting
    /\ \A r \in DOMAIN reqs :
          reqs[r].pc = "done" => reqs[r].eff.raise = reqs[r].eff.lower
    /\ (\A r \in DOMAIN reqs : reqs[r].pc = "done") => ~sorting

\* the readLists calls that ended with a failed load
FailedLoads(rq) == {k \in DOMAIN rq.lists : rq.lists[k].loaded = "failed"}

\* C22: before each sortPluginsAsync call the lists are reloaded exactly when
\* the time of the userlist differs from the time recorded by the last
\* successful load or no lists were ever loaded (also without a userlist); a
\* successful reload records the time of the file, a failed one leaves the
\* recorded time alone, is reported, and the call is still dispatched
C22_ReloadWhenChanged ==
    \A r \in DOMAIN reqs :
        /\ Len(reqs[r].disp) = Len(reqs[r].lists)
        /\ reqs[r].eff.error >= Cardinality(FailedLoads(reqs[r]))
        /\ \A k \in DOMAIN reqs[r].lists :
              LET e == reqs[r].lists[k]
              IN  /\ (e.loaded # "no") <=> (e.last = -1 \/ e.last # e.mtime)
                  /\ e.loaded = "ok" => e.after = e.mtime
                  /\ e.loaded = "failed" => e.after = e.last

\* the one doSort call of the request met 'already closed' and nothing else:
\* from loadListsAsync in readLists, or from sortPluginsAsync
OnlyAlreadyClosed(rq) ==
    /\ rq.pc = "done"
    /\ Len(rq.lists) = 1
    /\ Len(rq.fails) = 1
    /\ rq.fails[1].type = "closed"
    /\ rq.lists[1].loaded = "failed" => rq.lists[1].closed

\* C23: a sort run whose sortPluginsAsync, or whose list reload before it,
\* fails with 'already closed' is an empty result and no error: no warning
\* and no error notification, no retry, and the callback is called with null
C23_AlreadyClosedIsEmpty ==
    \A r \in DOMAIN reqs :
        OnlyAlreadyClosed(reqs[r]) =>
            /\ reqs[r].eff.warn = 0
            /\ reqs[r].eff.error = 0
            /\ reqs[r].eff.cycle = 0
            /\ Len(reqs[r].disp) = 1
            /\ reqs[r].cb => reqs[r].cbs = <<"null">>

\* the sortPluginsAsync calls of a request that returned an order
Succeeded(rq) == Len(rq.disp) - Len(rq.fails)

\* C24: updatePluginOrder is dispatched only for a sortPluginsAsync call that
\* succeeded, and with the order it returned; a failed run ('already closed',
\* cyclic interaction, invalid plugin, missing group, failed condition, any
\* other error) dispatches nothing and so leaves the order alone
C24_OrderOnlyOnSuccess ==
    \A r \in DOMAIN reqs :
        reqs[r].pc = "done" =>
            /\ reqs[r].eff.publish = Succeeded(reqs[r])
            /\ (r = Len(reqs) /\ Succeeded(reqs[r]) = 1) =>
                   publishedOrder = sortProms[reqs[r].mine].val

SameName(lhs, rhs) == toLowerCase(lhs) = toLowerCase(rhs)

\* the k-th failure of a run names an invalid item without a file that is, but
\* for the case of its letters, an item of the input
RetryDueAnyCase(rq, k) ==
    /\ rq.fails[k].type = "invalid"
    /\ \A f \in files : ~SameName(f, rq.fails[k].name)
    /\ \E i \in DOMAIN rq.disp[k] : SameName(rq.disp[k][i], rq.fails[k].name)

\* C26: a name that the engine mentions is compared with the known items
\* without regard to case: the invalid plugin is found in the input of the
\* sort (and the sort retried without it), getGroup finds the group, and
\* pluginDetails finds the deployed plugin, whatever the case of the name
C26_NamesCompareCaseless ==
    /\ \A r \in DOMAIN reqs : \A k \in DOMAIN reqs[r].fails :
          (Handled(reqs[r]) /\ RetryDueAnyCase(reqs[r], k)) => Len(reqs[r].disp) > k
    /\ \A name \in EngineNames :
          /\ getGroup(name) = getGroup(toLowerCase(name))
          /\ isDeployed(name) = isDeployed(toLowerCase(name))

-----------------------------------------------------------------------------
(* Properties of the notifications of pluginDetails *)

\* the notifications of an invocation that carry the id
Notes(qr, id) == {k \in DOMAIN qr.notes : qr.notes[k] = id}

\* C27: a batch of getPluginMetadataAsync calls ends with exactly one
\* 'gamebryo-plugins-loot-details-error' notification when a plugin failed for
\* a reason other than 'already closed' or missing meta data, with none
\* otherwise, and one pluginDetails invocation never shows more than one
\* error notification
C27_OneErrorNotification ==
    \A q \in DOMAIN queries :
        queries[q].pc = "done" =>
            /\ Cardinality(Notes(queries[q], "loot-details-error")) =
                   (IF queries[q].error THEN 1 ELSE 0)
            /\ Len(queries[q].notes) <= 1

=============================================================================
